---- MODULE Spec2Model ----
(***************************************************************************)
(* Model of the cloudbot deployment core:                                  *)
(*   - the aliyun price optimizer (FindOptimalConfig / ComparePrices /     *)
(*     FindCheapestInstance), specification SpecPrice;                     *)
(*   - the project service's DeployScenario / DestroyScenario with region  *)
(*     failover and multi-region fragmentation, specification Spec.        *)
(***************************************************************************)
EXTENDS Integers, Sequences, FiniteSets, TLC

VARIABLES
    \* ---- price optimizer ----
    priceOf,      \* mocked DescribePrice answers: <<instanceType, region>> -> price, 0 = the query fails
    optOp,        \* which entry point is being exercised
    optArgs,      \* the arguments of the call (kept for the repeated call)
    optPc,        \* "idle" | "fanout" | "returned"
    optCall,      \* number of calls started so far
    workers,      \* indices of the spawned goroutines that have not sent yet
    results,      \* the buffered channel `results`
    received,     \* loop counter i of the collect loop
    prices,       \* the slice `prices` of FindCheapestInstance
    optOut,       \* optOut[k]: what call k returned
    \* ---- project service: deploy / destroy of one Scenario ----
    scenario,         \* the persisted Scenario record (.scenario.json): Template, Status
    pc,               \* "idle" | "retry" | "frag" | "returned": where the running call is
    call,             \* the running (or last) call: op, nodeCount, region variable, status before
    regionList,       \* candidate list of the loop being run (availableRegions / regions)
    regionIndex,      \* position in `regions` (1-based)
    remainingNodes,   \* remainingNodes of deployAcrossMultipleRegions
    deployedRegions,  \* deployedRegions of deployAcrossMultipleRegions
    attempts,         \* history: the provisioning attempts of the running call, in order
    ret,              \* what the last call returned
    subScenarios,     \* history: status of the per-region Scenarios <id>-<reg> the running call wrote
    successCount,     \* successCount of deployAliyunProxyWithRegion
    \* ---- credential resolution and the terraform command lines ----
    store,            \* the providers the credential store holds credentials for
    credRegion,       \* whether the stored credentials carry a Region
    engCall,          \* the Scenario's template and the nodeCount / toolName arguments
    engPc,            \* "idle" | "planned" | "applied" | "destroyed"
    invocations,      \* history: the terraform commands run, with their -var arguments and environment
    \* ---- capacity probe (FindAvailableRegions / QuerySpotInstanceAvailability) ----
    probeOp,          \* which of the two functions is called
    probeCreds,       \* whether the credential store holds tencent credentials
    probeN,           \* how many candidate regions the call probes
    probePc,          \* "idle" | "collecting" | "returned"
    probeWorker,      \* per region: "spawned" | "probing" | "sent" (result in the channel) | "received"
    probeOutcome,     \* per region: what its query ended in ("none" until it ends)
    probeReceived,    \* loop counter i of the collect loop
    probeCancelled,   \* whether ctx has been cancelled
    probeRet,         \* what the call returned
    \* ---- concurrent DeployScenario / DestroyScenario calls for one Scenario ----
    callers,          \* per caller: the call it is in, the engine command it is at, and its phase
    \* ---- price repository (GetPrice and its cache) ----
    clock,            \* time.Now(), in ticks
    priceFetcher,     \* whether a price fetcher has been set
    cache,            \* per cache key: the cached quote and its expiry, or no entry
    lastGet,          \* the last GetPrice call: what it found in the cache and what it returned
    \* ---- deletion (DeleteScenario / DeleteProject) ----
    exists,           \* whether the project directory and the directory of each Scenario exist
    otherStatus,      \* the persisted status of the second Scenario of the project
    delRet            \* what the last delete call returned

optVars == <<priceOf, optOp, optArgs, optPc, optCall, workers, results, received, prices, optOut>>

depVars == <<scenario, pc, call, regionList, regionIndex, remainingNodes, deployedRegions, attempts, ret,
             subScenarios, successCount>>

engVars == <<store, credRegion, engCall, engPc, invocations>>

probeVars == <<probeOp, probeCreds, probeN, probePc, probeWorker, probeOutcome, probeReceived,
               probeCancelled, probeRet>>

conVars == <<callers>>

cacheVars == <<clock, priceFetcher, cache, lastGet>>

delVars == <<exists, otherStatus, delRet>>

vars == <<optVars, depVars, engVars, probeVars, conVars, cacheVars, delVars>>

\* what the actions of one part of the model leave alone
notOptVars == <<depVars, engVars, probeVars, conVars, cacheVars, delVars>>
notDepVars == <<optVars, engVars, probeVars, conVars, cacheVars, delVars>>
notEngVars == <<optVars, depVars, probeVars, conVars, cacheVars, delVars>>
notProbeVars == <<optVars, depVars, engVars, conVars, cacheVars, delVars>>
notConVars == <<optVars, depVars, engVars, probeVars, cacheVars, delVars>>
notCacheVars == <<optVars, depVars, engVars, probeVars, conVars, delVars>>
notDelVars == <<optVars, engVars, probeVars, conVars, cacheVars>>

Nil == "nil"                 \* a nil error
NilPrice == [nil |-> TRUE]   \* a nil *InstancePrice
NilConfig == [nil |-> TRUE]  \* a nil *OptimalInstanceConfig
NoArgs == [none |-> TRUE]

(***************************************************************************)
(* Bounds of the model.                                                    *)
(***************************************************************************)
MaxPrice == 2          \* mocked prices are 1..MaxPrice (0: the query fails)
MaxCandidates == 2     \* longest explicit candidate list passed by the caller
MaxCalls == 2          \* the same call is issued this many times

(***************************************************************************)
(* Program constants of the price optimizer.                               *)
(***************************************************************************)
HoursPerDay == 24
DaysPerMonth == 30

DefaultRegionsCheapest ==
    <<"cn-beijing", "cn-shanghai", "cn-hangzhou", "cn-shenzhen",
      "cn-hongkong", "ap-southeast-1", "us-east-1">>

DefaultRegionsCompare ==
    <<"cn-beijing", "cn-shanghai", "cn-hangzhou", "cn-shenzhen",
      "cn-hongkong", "ap-southeast-1">>

DefaultTypesOptimal == <<"ecs.t5-lc1m1.small", "ecs.t5-lc1m2.small">>

DefaultTypesCompare == <<"ecs.t5-lc1m1.small", "ecs.t5-lc1m2.small", "ecs.t6-c1m1.large">>

\* The regions and instance types for which the mocked provider can be given an answer.
ServedRegions == {"cn-beijing", "cn-shanghai"}
ServedTypes == {"ecs.t5-lc1m1.small", "ecs.t5-lc1m2.small"}
Pairs == ServedTypes \X ServedRegions
Providers == {"aliyun", "tencent"}

RECURSIVE SeqsOfLen(_, _)
SeqsOfLen(S, n) ==
    IF n = 0 THEN {<<>>}
    ELSE {Append(s, x) : s \in SeqsOfLen(S, n - 1), x \in S}

SeqsUpTo(S, n) == UNION {SeqsOfLen(S, k) : k \in 0..n}

Range(s) == {s[i] : i \in 1..Len(s)}

(***************************************************************************)
(* GetPriceForInstance: one DescribePrice query.  Every failure (transport,*)
(* API error code, unparsable body, price 0) returns (nil, err).           *)
(***************************************************************************)
RawPrice(instanceType, region) ==
    IF <<instanceType, region>> \in Pairs THEN priceOf[<<instanceType, region>>] ELSE 0

GetPriceForInstance(instanceType, region) ==
    LET pricePerHour == RawPrice(instanceType, region) IN
    IF pricePerHour = 0
    THEN [price |-> NilPrice, err |-> TRUE]
    ELSE [price |-> [InstanceType  |-> instanceType,
                     Region        |-> region,
                     PricePerHour  |-> pricePerHour,
                     PricePerMonth |-> pricePerHour * HoursPerDay * DaysPerMonth,
                     Currency      |-> "CNY"],
          err |-> FALSE]

(***************************************************************************)
(* sort.Slice(prices, PricePerHour <).  For slices of at most 12 elements  *)
(* the Go runtime sorts by insertion: each element moves left while it is  *)
(* strictly less than its left neighbour.                                  *)
(***************************************************************************)
\* A comparison with the order reversed.
LessDescending(a, b) == a.PricePerHour > b.PricePerHour

Less(a, b) == a.PricePerHour < b.PricePerHour

RECURSIVE InsertLeft(_, _)
InsertLeft(sorted, x) ==
    IF sorted = <<>> THEN <<x>>
    ELSE LET last == sorted[Len(sorted)] IN
         IF Less(x, last)
         THEN Append(InsertLeft(SubSeq(sorted, 1, Len(sorted) - 1), x), last)
         ELSE Append(sorted, x)

RECURSIVE SortSlice(_)
SortSlice(s) ==
    IF s = <<>> THEN <<>>
    ELSE InsertLeft(SortSlice(SubSeq(s, 1, Len(s) - 1)), s[Len(s)])

OptimalFrom(cheapest) ==
    [InstanceType  |-> cheapest.InstanceType,
     Region        |-> cheapest.Region,
     Price         |-> cheapest.PricePerHour,
     PricePerMonth |-> cheapest.PricePerMonth,
     Currency      |-> cheapest.Currency]

(***************************************************************************)
(* ComparePrices: sequential double loop over instance types and regions.  *)
(***************************************************************************)
RECURSIVE QueryRegions(_, _)
QueryRegions(instanceType, regions) ==
    IF regions = <<>> THEN <<>>
    ELSE LET r == GetPriceForInstance(instanceType, Head(regions)) IN
         (IF ~r.err /\ r.price # NilPrice THEN <<r.price>> ELSE <<>>)
             \o QueryRegions(instanceType, Tail(regions))

RECURSIVE QueryTypes(_, _)
QueryTypes(instanceTypes, regions) ==
    IF instanceTypes = <<>> THEN <<>>
    ELSE QueryRegions(Head(instanceTypes), regions) \o QueryTypes(Tail(instanceTypes), regions)

ComparePrices(instanceTypes, regions) ==
    LET ts == IF instanceTypes = <<>> THEN DefaultTypesCompare ELSE instanceTypes
        rs == IF regions = <<>> THEN DefaultRegionsCompare ELSE regions
    IN  [prices |-> SortSlice(QueryTypes(ts, rs)), err |-> Nil]

(***************************************************************************)
(* FindOptimalConfig of priceOptimizerService.                             *)
(***************************************************************************)
\* A variant that drops the len(allPrices) == 0 test.
FindOptimalConfigUnchecked(provider, instanceTypes, regions) ==
    IF provider # "aliyun"
    THEN [config |-> NilConfig, err |-> "unsupported provider"]
    ELSE LET ts  == IF instanceTypes = <<>> THEN DefaultTypesOptimal ELSE instanceTypes
             cmp == ComparePrices(ts, regions)
         IN  IF cmp.prices = <<>>
             THEN [config |-> NilConfig, err |-> Nil]
             ELSE [config |-> OptimalFrom(cmp.prices[1]), err |-> Nil]

FindOptimalConfigResult(provider, instanceTypes, regions) ==
    IF provider # "aliyun"
    THEN [config |-> NilConfig, err |-> "unsupported provider"]
    ELSE LET ts  == IF instanceTypes = <<>> THEN DefaultTypesOptimal ELSE instanceTypes
             cmp == ComparePrices(ts, regions)
         IN  IF cmp.err # Nil THEN [config |-> NilConfig, err |-> "query failed"]
             ELSE IF Len(cmp.prices) = 0
                  THEN [config |-> NilConfig, err |-> "no price information"]
                  ELSE [config |-> OptimalFrom(cmp.prices[1]), err |-> Nil]

EffectiveTypes(op, args) ==
    IF op = "FindCheapestInstance" THEN args.instanceTypes
    ELSE IF args.instanceTypes = <<>> THEN DefaultTypesOptimal ELSE args.instanceTypes

EffectiveRegions(op, args) ==
    IF args.regions # <<>> THEN args.regions
    ELSE IF op = "FindCheapestInstance" THEN DefaultRegionsCheapest ELSE DefaultRegionsCompare

\* The candidate (instanceType, region) pairs a call queries.
CandidatePairs(op, args) ==
    IF op = "FindOptimalConfig" /\ args.provider # "aliyun" THEN {}
    ELSE Range(EffectiveTypes(op, args)) \X Range(EffectiveRegions(op, args))

\* Mocked answers for a call: free on the served candidate pairs, failing elsewhere.
Mocks(op, args) ==
    {m \in [Pairs -> 0..MaxPrice] :
        \A p \in Pairs : p \notin CandidatePairs(op, args) => m[p] = 0}

OptimalArgs ==
    [provider : Providers,
     instanceTypes : SeqsUpTo(ServedTypes, 1),
     regions : SeqsUpTo(ServedRegions, MaxCandidates)]

CheapestArgs ==
    [provider : {"aliyun"},
     instanceTypes : SeqsOfLen(ServedTypes, 1),
     regions : SeqsUpTo(ServedRegions, MaxCandidates)]

NoOut == [config |-> NilConfig, err |-> "not called"]

InitOptimizer ==
    /\ priceOf = [p \in Pairs |-> 0]
    /\ optOp = "none"
    /\ optArgs = NoArgs
    /\ optPc = "idle"
    /\ optCall = 0
    /\ workers = {}
    /\ results = <<>>
    /\ received = 0
    /\ prices = <<>>
    /\ optOut = [k \in 1..MaxCalls |-> NoOut]

(***************************************************************************)
(* The caller fixes the arguments and the provider's answers; the same     *)
(* call is then issued MaxCalls times against unchanged answers.           *)
(***************************************************************************)
Arrange ==
    /\ optOp = "none"
    /\ \E op \in {"FindOptimalConfig", "FindCheapestInstance"} :
         \E args \in (IF op = "FindOptimalConfig" THEN OptimalArgs ELSE CheapestArgs) :
            \E mock \in Mocks(op, args) :
               /\ optOp' = op
               /\ optArgs' = args
               /\ priceOf' = mock
    /\ UNCHANGED <<optPc, optCall, workers, results, received, prices, optOut>>
    /\ UNCHANGED notOptVars

FindOptimalConfig ==
    /\ optOp = "FindOptimalConfig"
    /\ optPc \in {"idle", "returned"}
    /\ optCall < MaxCalls
    /\ optCall' = optCall + 1
    /\ optOut' = [optOut EXCEPT ![optCall + 1] =
                     FindOptimalConfigResult(optArgs.provider, optArgs.instanceTypes, optArgs.regions)]
    /\ optPc' = "returned"
    /\ UNCHANGED <<priceOf, optOp, optArgs, workers, results, received, prices>>
    /\ UNCHANGED notOptVars

(***************************************************************************)
(* FindCheapestInstance: one goroutine per region, results on a channel of *)
(* capacity len(regions), collected in arrival order.                      *)
(***************************************************************************)
FindCheapestInstanceStart ==
    /\ optOp = "FindCheapestInstance"
    /\ optPc \in {"idle", "returned"}
    /\ optCall < MaxCalls
    /\ optCall' = optCall + 1
    /\ workers' = 1..Len(EffectiveRegions(optOp, optArgs))
    /\ results' = <<>>
    /\ received' = 0
    /\ prices' = <<>>
    /\ optPc' = "fanout"
    /\ UNCHANGED <<priceOf, optOp, optArgs, optOut>>
    /\ UNCHANGED notOptVars

WorkerSend ==
    /\ optPc = "fanout"
    /\ \E w \in workers :
         LET regions == EffectiveRegions(optOp, optArgs) IN
         /\ Len(results) < Len(regions)
         /\ results' = Append(results, GetPriceForInstance(optArgs.instanceTypes[1], regions[w]))
         /\ workers' = workers \ {w}
    /\ UNCHANGED <<priceOf, optOp, optArgs, optPc, optCall, received, prices, optOut>>
    /\ UNCHANGED notOptVars

\* A variant that drops the len(prices) == 0 test.
FindCheapestInstanceUnchecked(ps) ==
    IF ps = <<>>
    THEN [config |-> NilConfig, err |-> Nil]
    ELSE [config |-> OptimalFrom(SortSlice(ps)[1]), err |-> Nil]

\* The tail of FindCheapestInstance, once every result has been received.
FindCheapestInstanceReturn(ps) ==
    IF Len(ps) = 0
    THEN [config |-> NilConfig, err |-> "no price information"]
    ELSE [config |-> OptimalFrom(SortSlice(ps)[1]), err |-> Nil]

Collect ==
    /\ optPc = "fanout"
    /\ results # <<>>
    /\ LET result == Head(results)
           got    == IF ~result.err /\ result.price # NilPrice
                     THEN Append(prices, result.price) ELSE prices
           n      == Len(EffectiveRegions(optOp, optArgs))
       IN  /\ results' = Tail(results)
           /\ received' = received + 1
           /\ prices' = got
           /\ IF received + 1 = n
              THEN /\ optOut' = [optOut EXCEPT ![optCall] = FindCheapestInstanceReturn(got)]
                   /\ optPc' = "returned"
              ELSE UNCHANGED <<optOut, optPc>>
    /\ UNCHANGED <<priceOf, optOp, optArgs, optCall, workers>>
    /\ UNCHANGED notOptVars

NextPrice ==
    \/ Arrange
    \/ FindOptimalConfig
    \/ FindCheapestInstanceStart
    \/ WorkerSend
    \/ Collect


(***************************************************************************)
(* Project service: DeployScenario / DestroyScenario on one Scenario.      *)
(* One step of the model is one provisioning attempt (terraform init,      *)
(* validate, plan and apply in a working directory, in that order), with   *)
(* everything the code does around it up to the next attempt or the return.*)
(***************************************************************************)
MaxNodes == 6             \* largest nodeCount a caller passes

DefaultNodeCount == 3

GetDomesticRegions ==
    <<"ap-shanghai", "ap-nanjing", "ap-guangzhou", "ap-beijing", "ap-chengdu", "ap-chongqing">>

TencentProxy == "tencent/tencent-proxy"
TencentPostpaid == "tencent/tencent-proxy-postpaid"
AliyunEcs == "aliyun/ecs"
AliyunZoneBj == "aliyun/aliyun-proxy/zone-node/ss-libev-node-bj"
AliyunZoneSh == "aliyun/aliyun-proxy/zone-node/ss-libev-node-sh"
AliyunProxy == "aliyun/aliyun-proxy"     \* a template path that names no region (old records)
HuaweiProxy == "huaweicloud/huaweicloud-proxy"

DeployTemplates == {TencentProxy, TencentPostpaid, AliyunEcs, AliyunZoneBj, AliyunProxy, HuaweiProxy}

\* strings.Contains(template, "aliyun/aliyun-proxy/zone-node/ss-libev-node-")
HasZoneNodeRegion(t) == t \in {AliyunZoneBj, AliyunZoneSh}

\* strings.Contains(template, "aliyun/aliyun-proxy") && !strings.Contains(template, "zone-node")
IsRegionlessAliyunProxy(t) == t \in {AliyunProxy}

\* regionOrder and regionMap of deployAliyunProxyWithRegion
RegionOrder == <<"bj", "sh", "hhht", "wlcb", "zjk">>

RegionMap(reg) ==
    IF reg \in {RegionOrder[i] : i \in 1..Len(RegionOrder)}
    THEN "aliyun/aliyun-proxy/zone-node/ss-libev-node-" \o reg
    ELSE ""          \* not a key of the map

\* A variant that reads the region of the other zone-node template.
TemplateRegionSwapped(t) ==
    IF t = AliyunZoneBj THEN "cn-shanghai" ELSE IF t = AliyunZoneSh THEN "cn-beijing" ELSE ""

\* the region of a zone-node template, as deployAliyunProxyScenario extracts it
TemplateRegion(t) ==
    IF t = AliyunZoneBj THEN "cn-beijing" ELSE IF t = AliyunZoneSh THEN "cn-shanghai" ELSE ""

\* the `region` argument of DeployScenario: none, a region of regionMap, one that is not.
\* Only the aliyun-proxy paths read the argument.
RegionArgs(t) ==
    IF HasZoneNodeRegion(t) \/ IsRegionlessAliyunProxy(t) THEN {"", "sh", "xx"} ELSE {""}

\* strings.Contains(template, "tencent/")
IsTencent(t) == t \in {TencentProxy, TencentPostpaid}

\* strings.Contains(template, "tencent-proxy-postpaid")
IsPostpaid(t) == t \in {TencentPostpaid}

\* the templates that are handed the node_count variable
SupportsNodeCount(t) ==
    t \in {AliyunZoneBj, AliyunZoneSh, AliyunProxy, HuaweiProxy, TencentProxy, TencentPostpaid}

\* What one provisioning attempt can end in: success, or the first engine call that fails.
\* planQuota / applyQuota are failures whose text carries "LimitExceeded.SpotQuota" or "配额不足".
Outcomes == {"ok", "initFail", "validateFail", "planQuota", "planOther", "applyQuota", "applyOther"}

IsQuotaError(o) == o \in {"planQuota", "applyQuota"}

Class(o) == IF o = "ok" THEN "ok" ELSE IF IsQuotaError(o) THEN "quota" ELSE "other"

\* vars["node_count"]: 0 stands for "not set"
NodeCountVar(t, nodeCount) == IF nodeCount > 0 /\ SupportsNodeCount(t) THEN nodeCount ELSE 0

ActualNodeCount(nodeCount, nodeCountVar) ==
    IF nodeCount > 0 THEN nodeCount
    ELSE IF nodeCountVar > 0 THEN nodeCountVar
    ELSE DefaultNodeCount

\* enable_spot is never put into vars, so enableSpot keeps its default, true
FragmentsDirectly(t, actualNodeCount) ==
    IsTencent(t) /\ actualNodeCount > 1 /\ ~IsPostpaid(t)

Remove(list, r) == SelectSeq(list, LAMBDA x : x # r)

\* the region list DeployScenario hands to deployAcrossMultipleRegions
FragRegions(regionVar) ==
    IF regionVar # "" THEN <<regionVar>> \o Remove(GetDomesticRegions, regionVar)
    ELSE GetDomesticRegions

\* A variant that keeps the current region in the list.
AvailableRegionsKeepCurrent(regionVar) == FragRegions(regionVar)

\* availableRegions of retryDeployWithDifferentRegions
AvailableRegions(regionVar) ==
    LET currentRegion == IF regionVar = "" THEN "ap-beijing" ELSE regionVar
    IN  Remove(GetDomesticRegions, currentRegion)

RetryFragments(actualNodeCount, availableRegions) ==
    actualNodeCount > 1 /\ Len(availableRegions) > 1

\* the failures after which the single-region loop goes on to the next region
RetryContinues(o) == o \in {"initFail", "validateFail", "planQuota", "planOther", "applyQuota"}

\* A variant that goes on to the next fragment after every second region only.
NextRegionIndexSkipping(index, placed) == IF placed THEN index + 2 ELSE index + 1

\* A variant that asks a region again after it has taken a node.
NextRegionIndexStaying(index, placed) == IF placed THEN index ELSE index + 1

\* regionIndex++ of deployAcrossMultipleRegions
NextRegionIndex(index, placed) == index + 1

\* the value vars["region"] can take when the first attempt is made: "" when the
\* credential store gives none, else the configured or the probed region
RegionVars(t) ==
    IF IsTencent(t) THEN {"", "ap-shanghai", "ap-beijing"}
    ELSE IF HasZoneNodeRegion(t) THEN {"", TemplateRegion(t)}
    ELSE {"", "cn-hangzhou"}

NoErr == [kind |-> "nil", args |-> <<>>]
Err(kind, args) == [kind |-> kind, args |-> args]

\* A variant whose write takes effect even when it reports a failure.
UpdateScenarioAlways(persisted, updated, persistOk) == updated

\* UpdateScenario: rewrites the metadata file, or fails and leaves it as it was
UpdateScenario(persisted, updated, persistOk) == IF persistOk THEN updated ELSE persisted

\* A variant that writes the status whatever the attempt ended in.
ScenarioAfterAttemptEager(sc, o, persistOk) ==
    UpdateScenario(sc, [sc EXCEPT !.Status = "deployed"], persistOk)

\* the persisted Scenario after an attempt that ended in o
ScenarioAfterAttempt(sc, o, persistOk) ==
    IF o = "ok"
    THEN UpdateScenario(sc, [sc EXCEPT !.Status = "deployed"], persistOk)
    ELSE sc

ErrAfterUpdate(persistOk) == IF persistOk THEN NoErr ELSE Err("updateScenarioFailed", <<>>)

\* the error DeployScenario / deployAliyunProxyScenario return after their own attempt
AttemptErr(o, persistOk) ==
    CASE o = "ok"           -> ErrAfterUpdate(persistOk)
      [] o = "initFail"     -> Err("initFailed", <<>>)
      [] o = "validateFail" -> Err("validateFailed", <<>>)
      [] o \in {"planQuota", "planOther"}   -> Err("planFailed", <<>>)
      [] o \in {"applyQuota", "applyOther"} -> Err("applyFailed", <<>>)

\* scenario.Path of the one Scenario the model follows
ScenarioPath == "projects/p1/scenarios/s1"

\* one provisioning attempt: the region variable, how it ended, the loop that made it, the
\* working directory handed to terraform init / validate / plan / apply (scenario.Path),
\* and the Template of the Scenario record the attempt was made for
EntryUnder(template, region, o, via) ==
    [region |-> region, class |-> Class(o), via |-> via, dir |-> scenario.Path,
     template |-> template]

Entry(region, o, via) == EntryUnder(scenario.Template, region, o, via)

NoCall == [op |-> "none", nodeCount |-> 0, region |-> "", regionVar |-> "",
           statusBefore |-> "pending", total |-> 0, originalErr |-> ""]
NoRet == [op |-> "none", err |-> NoErr]

\* no per-region Scenario written (yet) by the call
NoSubScenarios == [reg \in {RegionOrder[i] : i \in 1..Len(RegionOrder)} |-> "unwritten"]

InitScenario ==
    /\ scenario \in [Template : DeployTemplates, Status : {"pending"}, Path : {ScenarioPath}]
    /\ pc = "idle"
    /\ call = NoCall
    /\ regionList = <<>>
    /\ regionIndex = 0
    /\ remainingNodes = 0
    /\ deployedRegions = <<>>
    /\ attempts = <<>>
    /\ ret = NoRet
    /\ subScenarios = NoSubScenarios
    /\ successCount = 0

Return(op, err) ==
    /\ pc' = "returned"
    /\ ret' = [op |-> op, err |-> err]

\* entry of deployAcrossMultipleRegions
EnterFragmentation(c, totalNodeCount, list, log) ==
    /\ call' = [c EXCEPT !.total = totalNodeCount]
    /\ regionList' = list
    /\ regionIndex' = 1
    /\ remainingNodes' = totalNodeCount
    /\ deployedRegions' = <<>>
    /\ attempts' = log
    /\ pc' = "frag"
    /\ ret' = NoRet
    /\ subScenarios' = NoSubScenarios
    /\ successCount' = 0
    /\ UNCHANGED scenario

\* deployAliyunProxyScenario, and the tail of DeployScenario when nothing is retried
SingleAttempt(c, o, persistOk) ==
    /\ call' = c
    /\ attempts' = <<Entry(c.regionVar, o, "first")>>
    /\ scenario' = ScenarioAfterAttempt(scenario, o, persistOk)
    /\ regionList' = <<>>
    /\ regionIndex' = 0
    /\ remainingNodes' = 0
    /\ deployedRegions' = <<>>
    /\ subScenarios' = NoSubScenarios
    /\ successCount' = 0
    /\ Return("deploy", AttemptErr(o, persistOk))

\* entry of retryDeployWithDifferentRegions, after the first attempt hit a quota error
RetryDeployWithDifferentRegions(c, o) ==
    LET actualNodeCount == ActualNodeCount(c.nodeCount, NodeCountVar(scenario.Template, c.nodeCount))
        availableRegions == AvailableRegions(c.regionVar)
        log == <<Entry(c.regionVar, o, "first")>>
    IN  IF RetryFragments(actualNodeCount, availableRegions)
        THEN EnterFragmentation([c EXCEPT !.originalErr = o], actualNodeCount, availableRegions, log)
        ELSE /\ call' = [c EXCEPT !.total = actualNodeCount, !.originalErr = o]
             /\ regionList' = availableRegions
             /\ regionIndex' = 1
             /\ remainingNodes' = 0
             /\ deployedRegions' = <<>>
             /\ attempts' = log
             /\ pc' = "retry"
             /\ ret' = NoRet
             /\ subScenarios' = NoSubScenarios
             /\ successCount' = 0
             /\ UNCHANGED scenario

\* UpdateScenario is reached, and so can fail, only after a successful attempt
PersistOutcomes(o) == IF o = "ok" THEN BOOLEAN ELSE {TRUE}

\* deployAliyunProxyWithRegion for a template that names no region
DeployAliyunProxyWithRegion(c) ==
    IF c.region # ""
    THEN IF RegionMap(c.region) = ""
         THEN \* not a region of regionMap
              /\ call' = c
              /\ attempts' = <<>>
              /\ regionList' = <<>>
              /\ regionIndex' = 0
              /\ remainingNodes' = 0
              /\ deployedRegions' = <<>>
              /\ subScenarios' = NoSubScenarios
              /\ successCount' = 0
              /\ UNCHANGED scenario
              /\ Return("deploy", Err("invalidRegion", <<c.region>>))
         ELSE \* scenario.Template = templatePath, then deployAliyunProxyScenario on that record
              \E regionVar \in RegionVars(RegionMap(c.region)), o \in Outcomes :
                \E persistOk \in PersistOutcomes(o) :
                  /\ call' = [c EXCEPT !.regionVar = regionVar]
                  /\ attempts' = <<EntryUnder(RegionMap(c.region), regionVar, o, "first")>>
                  /\ scenario' = ScenarioAfterAttempt(
                                     [scenario EXCEPT !.Template = RegionMap(c.region)], o, persistOk)
                  /\ regionList' = <<>>
                  /\ regionIndex' = 0
                  /\ remainingNodes' = 0
                  /\ deployedRegions' = <<>>
                  /\ subScenarios' = NoSubScenarios
                  /\ successCount' = 0
                  /\ Return("deploy", AttemptErr(o, persistOk))
    ELSE \* no region given: every region of regionOrder in turn
         /\ call' = c
         /\ attempts' = <<>>
         /\ regionList' = RegionOrder
         /\ regionIndex' = 1
         /\ remainingNodes' = 0
         /\ deployedRegions' = <<>>
         /\ subScenarios' = NoSubScenarios
         /\ successCount' = 0
         /\ pc' = "allRegions"
         /\ ret' = NoRet
         /\ UNCHANGED scenario

DeployScenario ==
    /\ pc \in {"idle", "returned"}
    /\ \E nodeCount \in 0..MaxNodes, region \in RegionArgs(scenario.Template) :
         LET t == scenario.Template
             c0 == [op |-> "deploy", nodeCount |-> nodeCount, region |-> region, regionVar |-> "",
                    statusBefore |-> scenario.Status, total |-> 0, originalErr |-> ""]
         IN  IF ~HasZoneNodeRegion(t) /\ IsRegionlessAliyunProxy(t)
             THEN DeployAliyunProxyWithRegion(c0)
             ELSE \E regionVar \in RegionVars(t) :
                    LET c == [c0 EXCEPT !.regionVar = regionVar]
                        actualNodeCount == ActualNodeCount(nodeCount, NodeCountVar(t, nodeCount))
                    IN  IF ~HasZoneNodeRegion(t) /\ FragmentsDirectly(t, actualNodeCount)
                        THEN EnterFragmentation(c, actualNodeCount, FragRegions(regionVar), <<>>)
                        ELSE \E o \in Outcomes : \E persistOk \in PersistOutcomes(o) :
                               IF ~HasZoneNodeRegion(t) /\ IsTencent(t) /\ IsQuotaError(o)
                               THEN RetryDeployWithDifferentRegions(c, o)
                               ELSE SingleAttempt(c, o, persistOk)
    /\ UNCHANGED notDepVars

\* what one region of the all-regions loop can end in: CopyTemplate fails, AddScenario fails,
\* or deployAliyunProxyScenario makes its attempt
RegionSteps == {"copyFail", "addFail"} \cup Outcomes

\* what the iteration wrote as the status of its per-region Scenario: nothing when
\* CopyTemplate or AddScenario failed, else pending (AddScenario) and then deployed
SubScenarioAfter(status, step, persistOk) ==
    IF step \in {"copyFail", "addFail"} THEN status
    ELSE IF step = "ok" /\ persistOk THEN "deployed"
    ELSE "pending"

\* one iteration of the all-regions loop of deployAliyunProxyWithRegion
AllRegionsAttempt ==
    /\ pc = "allRegions"
    /\ \E step \in RegionSteps : \E persistOk \in PersistOutcomes(step) :
         LET reg     == regionList[regionIndex]
             counted == step = "ok" /\ persistOk
             lastErr == IF step = "ok" THEN "updateScenarioFailed" ELSE step
             count   == IF counted THEN successCount + 1 ELSE successCount
         IN  /\ subScenarios' = [subScenarios EXCEPT ![reg] = SubScenarioAfter(@, step, persistOk)]
             /\ successCount' = count
             /\ regionIndex' = regionIndex + 1
             /\ IF regionIndex + 1 <= Len(regionList)
                THEN UNCHANGED <<pc, ret>>
                ELSE IF count = 0
                THEN Return("deploy", Err("allRegionsFailed", <<lastErr>>))
                ELSE Return("deploy", NoErr)
    /\ UNCHANGED <<scenario, call, regionList, remainingNodes, deployedRegions, attempts>>
    /\ UNCHANGED notDepVars

\* one iteration of the loop of retryDeployWithDifferentRegions
RetryAttempt ==
    /\ pc = "retry"
    /\ \E o \in Outcomes : \E persistOk \in PersistOutcomes(o) :
         LET region == regionList[regionIndex] IN
         /\ attempts' = Append(attempts, Entry(region, o, "retry"))
         /\ scenario' = ScenarioAfterAttempt(scenario, o, persistOk)
         /\ IF RetryContinues(o)
            THEN /\ regionIndex' = regionIndex + 1
                 /\ IF regionIndex + 1 > Len(regionList)
                    THEN Return("deploy", Err("allRegionsQuotaExceeded", <<call.originalErr>>))
                    ELSE UNCHANGED <<pc, ret>>
            ELSE /\ regionIndex' = regionIndex
                 /\ IF o = "ok"
                    THEN Return("deploy", ErrAfterUpdate(persistOk))
                    ELSE Return("deploy", Err("applyFailed", <<region>>))
    /\ UNCHANGED <<call, regionList, remainingNodes, deployedRegions, subScenarios, successCount>>
    /\ UNCHANGED notDepVars

\* one iteration of the loop of deployAcrossMultipleRegions; node_count is 1 per region
FragAttempt ==
    /\ pc = "frag"
    /\ \E o \in Outcomes : \E persistOk \in PersistOutcomes(o) :
         LET region   == regionList[regionIndex]
             placed   == o = "ok"
             left     == IF placed THEN remainingNodes - 1 ELSE remainingNodes
             deployed == IF placed THEN Append(deployedRegions, [region |-> region, nodes |-> 1])
                         ELSE deployedRegions
             index    == IF placed /\ left <= 0 THEN regionIndex
                         ELSE NextRegionIndex(regionIndex, placed)
         IN  /\ attempts' = Append(attempts, Entry(region, o, "frag"))
             /\ remainingNodes' = left
             /\ deployedRegions' = deployed
             /\ regionIndex' = index
             /\ IF left > 0 /\ index <= Len(regionList)
                THEN UNCHANGED <<scenario, pc, ret>>
                ELSE IF left > 0
                THEN /\ Return("deploy", Err("fragmentationIncomplete", <<left, deployed>>))
                     /\ UNCHANGED scenario
                ELSE /\ scenario' = UpdateScenario(scenario, [scenario EXCEPT !.Status = "deployed"], persistOk)
                     /\ Return("deploy", ErrAfterUpdate(persistOk))
    /\ UNCHANGED <<call, regionList, subScenarios, successCount>>
    /\ UNCHANGED notDepVars

\* A variant that writes the status whatever terraform destroy ended in.
ScenarioAfterDestroyEager(sc, destroyOk, persistOk) ==
    UpdateScenario(sc, [sc EXCEPT !.Status = "destroyed"], persistOk)

\* the persisted Scenario after the terraform destroy of DestroyScenario
ScenarioAfterDestroy(sc, destroyOk, persistOk) ==
    IF destroyOk
    THEN UpdateScenario(sc, [sc EXCEPT !.Status = "destroyed"], persistOk)
    ELSE sc

\* the terraform destroy of DestroyScenario, in the working directory scenario.Path
DestroyEntry(destroyOk) ==
    [region |-> "", class |-> IF destroyOk THEN "ok" ELSE "other", via |-> "destroy",
     dir |-> scenario.Path, template |-> scenario.Template]

\* DestroyScenario: one terraform destroy in the Scenario's working directory
DestroyScenario ==
    /\ pc \in {"idle", "returned"}
    /\ \E destroyOk \in BOOLEAN, persistOk \in BOOLEAN :
         /\ call' = [op |-> "destroy", nodeCount |-> 0, region |-> "", regionVar |-> "",
                     statusBefore |-> scenario.Status, total |-> 0, originalErr |-> ""]
         /\ scenario' = ScenarioAfterDestroy(scenario, destroyOk, persistOk)
         /\ attempts' = <<DestroyEntry(destroyOk)>>
         /\ Return("destroy", IF destroyOk THEN ErrAfterUpdate(persistOk) ELSE Err("destroyFailed", <<>>))
    /\ regionList' = <<>>
    /\ regionIndex' = 0
    /\ remainingNodes' = 0
    /\ deployedRegions' = <<>>
    /\ subScenarios' = NoSubScenarios
    /\ successCount' = 0
    /\ UNCHANGED notDepVars

(***************************************************************************)
(* Credential resolution of DeployScenario / DestroyScenario and the       *)
(* command lines and environments the terraform service builds from it.    *)
(* Variables are sets of <<name, value>> pairs; a secret value is written  *)
(* "<provider>.AccessKey" or "<provider>.SecretKey".                       *)
(***************************************************************************)
AliyunTaskExecutorSpot == "aliyun/task-executor-spot"
UnknownTemplate == "vultr/vps"           \* matches none of the provider prefixes

EngTemplates ==
    {TencentProxy, AliyunEcs, AliyunZoneBj, AliyunTaskExecutorSpot, HuaweiProxy, UnknownTemplate}

\* the providers setupCloudProviderEnv asks the credential manager for
CredProviders == {"tencent", "aliyun", "huaweicloud", "aws"}

\* strings.HasPrefix(templatePath, "tencent/" | "aliyun/" | "huaweicloud/")
HasProviderPrefix(t, provider) ==
    CASE provider = "tencent"     -> t \in {TencentProxy, TencentPostpaid}
      [] provider = "aliyun"      -> t \in {AliyunEcs, AliyunZoneBj, AliyunZoneSh, AliyunProxy,
                                            AliyunTaskExecutorSpot}
      [] provider = "huaweicloud" -> t \in {HuaweiProxy}
      [] OTHER                    -> FALSE

\* strings.Contains(templatePath, "aliyun-proxy")
ContainsAliyunProxy(t) == t \in {AliyunZoneBj, AliyunZoneSh, AliyunProxy}

\* strings.Contains(templatePath, "task-executor-spot")
ContainsTaskExecutorSpot(t) == t \in {AliyunTaskExecutorSpot}

AccessKey(provider) == provider \o ".AccessKey"
SecretKey(provider) == provider \o ".SecretKey"

SecretValues == {AccessKey(p) : p \in CredProviders} \cup {SecretKey(p) : p \in CredProviders}

Plain == "plain"       \* any value that is not read from a secret field

\* vars of deployAliyunProxyScenario
AliyunProxyScenarioVars(t, st, nodeCount) ==
    (IF "aliyun" \in st
     THEN {<<"access_key", AccessKey("aliyun")>>, <<"secret_key", SecretKey("aliyun")>>}
          \cup (IF TemplateRegion(t) # "" THEN {<<"region", Plain>>} ELSE {})
     ELSE {})
    \cup (IF nodeCount > 0 THEN {<<"node_count", Plain>>} ELSE {})

\* vars of DeployScenario when it makes the attempt itself
DeployScenarioVars(t, st, hasRegion, nodeCount, toolName) ==
    (IF HasProviderPrefix(t, "tencent") /\ "tencent" \in st
     THEN {<<"tencentcloud_secret_id", AccessKey("tencent")>>,
           <<"tencentcloud_secret_key", SecretKey("tencent")>>, <<"region", Plain>>}
     ELSE {})
    \cup (IF HasProviderPrefix(t, "aliyun") /\ "aliyun" \in st
          THEN (IF ContainsAliyunProxy(t)
                THEN {<<"access_key", AccessKey("aliyun")>>, <<"secret_key", SecretKey("aliyun")>>}
                ELSE {})
               \cup (IF hasRegion THEN {<<"region", Plain>>} ELSE {})
          ELSE {})
    \cup (IF HasProviderPrefix(t, "huaweicloud") /\ "huaweicloud" \in st
          THEN {<<"access_key", AccessKey("huaweicloud")>>, <<"secret_key", SecretKey("huaweicloud")>>}
               \cup (IF hasRegion THEN {<<"region", Plain>>} ELSE {})
          ELSE {})
    \cup (IF nodeCount > 0 /\ SupportsNodeCount(t) THEN {<<"node_count", Plain>>} ELSE {})
    \cup (IF toolName /\ ContainsTaskExecutorSpot(t)
          THEN {<<"program_oss_path", Plain>>, <<"project_name", Plain>>,
                <<"scenario_id", Plain>>, <<"tool_oss_bucket", Plain>>}
          ELSE {})

\* the vars a deploy hands to Plan and Apply
DeployVars(t, st, hasRegion, nodeCount, toolName) ==
    IF HasZoneNodeRegion(t)
    THEN AliyunProxyScenarioVars(t, st, nodeCount)
    ELSE DeployScenarioVars(t, st, hasRegion, nodeCount, toolName)

\* the vars DestroyScenario hands to Destroy
DestroyVars(t, st) ==
    (IF HasProviderPrefix(t, "tencent") /\ "tencent" \in st
     THEN {<<"tencentcloud_secret_id", AccessKey("tencent")>>,
           <<"tencentcloud_secret_key", SecretKey("tencent")>>}
     ELSE {})
    \cup (IF HasProviderPrefix(t, "aliyun") /\ "aliyun" \in st /\ ContainsAliyunProxy(t)
          THEN {<<"access_key", AccessKey("aliyun")>>, <<"secret_key", SecretKey("aliyun")>>}
          ELSE {})
    \cup (IF HasProviderPrefix(t, "aliyun") /\ ContainsTaskExecutorSpot(t) /\ "aliyun" \in st
          THEN {<<"oss_access_key_id", AccessKey("aliyun")>>,
                <<"oss_access_key_secret", SecretKey("aliyun")>>}
          ELSE {})
    \cup (IF HasProviderPrefix(t, "huaweicloud") /\ "huaweicloud" \in st
          THEN {<<"access_key", AccessKey("huaweicloud")>>, <<"secret_key", SecretKey("huaweicloud")>>}
          ELSE {})

\* isCredentialVar
IsCredentialVar(varName) ==
    varName \in {"tencentcloud_secret_id", "tencentcloud_secret_key", "access_key", "secret_key",
                 "alicloud_access_key", "alicloud_secret_key", "huaweicloud_access_key",
                 "huaweicloud_secret_key", "aws_access_key_id", "aws_secret_access_key"}

\* the -var arguments Plan, Apply and Destroy put on the command line
VarArgs(vs) == {kv \in vs : ~IsCredentialVar(kv[1])}

\* vars[k], "" when the key is not set
Get(vs, k) == IF \E kv \in vs : kv[1] = k THEN (CHOOSE kv \in vs : kv[1] = k)[2] ELSE ""

\* one provider's part of envMap: the store's keys, overridden by the pair of vars
ProviderEnv(st, hasRegion, vs, provider, idName, keyName, regionName, idVar, keyVar) ==
    LET fromVars  == idVar # "" /\ Get(vs, idVar) # "" /\ Get(vs, keyVar) # ""
        fromStore == provider \in st
    IN  (IF fromVars THEN {<<idName, Get(vs, idVar)>>, <<keyName, Get(vs, keyVar)>>}
         ELSE IF fromStore THEN {<<idName, AccessKey(provider)>>, <<keyName, SecretKey(provider)>>}
         ELSE {})
        \cup (IF fromStore /\ hasRegion THEN {<<regionName, Plain>>} ELSE {})

\* setupCloudProviderEnv; the environment of the process itself is taken to hold no secret
SetupCloudProviderEnv(st, hasRegion, vs) ==
    ProviderEnv(st, hasRegion, vs, "tencent", "TENCENTCLOUD_SECRET_ID", "TENCENTCLOUD_SECRET_KEY",
                "TENCENTCLOUD_REGION", "tencentcloud_secret_id", "tencentcloud_secret_key")
    \cup ProviderEnv(st, hasRegion, vs, "aliyun", "ALICLOUD_ACCESS_KEY", "ALICLOUD_SECRET_KEY",
                     "ALICLOUD_REGION", "access_key", "secret_key")
    \cup ProviderEnv(st, hasRegion, vs, "huaweicloud", "HUAWEICLOUD_ACCESS_KEY",
                     "HUAWEICLOUD_SECRET_KEY", "HUAWEICLOUD_REGION", "", "")
    \cup ProviderEnv(st, hasRegion, vs, "aws", "AWS_ACCESS_KEY_ID", "AWS_SECRET_ACCESS_KEY",
                     "AWS_REGION", "", "")

\* one run of the terraform binary
Invocation(cmd, vs) ==
    [cmd |-> cmd, dir |-> ScenarioPath, vars |-> vs, args |-> VarArgs(vs),
     env |-> SetupCloudProviderEnv(store, credRegion, vs)]

NoEngCall == [template |-> AliyunEcs, nodeCount |-> 0, toolName |-> FALSE]

\* the engine part at rest: an empty credential store and no command run
InitEngineIdle ==
    /\ store = {}
    /\ credRegion = FALSE
    /\ engCall = NoEngCall
    /\ engPc = "idle"
    /\ invocations = <<>>

\* any credential store, any template, any nodeCount / toolName arguments
InitEngine ==
    /\ store \in SUBSET CredProviders
    /\ credRegion \in BOOLEAN
    /\ engCall \in [template : EngTemplates, nodeCount : {0, 1}, toolName : BOOLEAN]
    /\ engPc = "idle"
    /\ invocations = <<>>

\* terraformService.Plan, called by the deploy
EnginePlan ==
    /\ engPc = "idle"
    /\ invocations' = Append(invocations,
           Invocation("plan", DeployVars(engCall.template, store, credRegion,
                                         engCall.nodeCount, engCall.toolName)))
    /\ engPc' = "planned"
    /\ UNCHANGED <<store, credRegion, engCall>>
    /\ UNCHANGED notEngVars

\* terraformService.Apply, called by the deploy
EngineApply ==
    /\ engPc = "planned"
    /\ invocations' = Append(invocations,
           Invocation("apply", DeployVars(engCall.template, store, credRegion,
                                          engCall.nodeCount, engCall.toolName)))
    /\ engPc' = "applied"
    /\ UNCHANGED <<store, credRegion, engCall>>
    /\ UNCHANGED notEngVars

\* terraformService.Destroy, called by DestroyScenario
EngineDestroy ==
    /\ engPc \in {"idle", "applied"}
    /\ invocations' = Append(invocations, Invocation("destroy", DestroyVars(engCall.template, store)))
    /\ engPc' = "destroyed"
    /\ UNCHANGED <<store, credRegion, engCall>>
    /\ UNCHANGED notEngVars

NextEngine ==
    \/ EnginePlan
    \/ EngineApply
    \/ EngineDestroy

(***************************************************************************)
(* Capacity probe: FindAvailableRegions and QuerySpotInstanceAvailability. *)
(* One goroutine per region takes a slot of the semaphore, runs its query, *)
(* sends its result and gives the slot back; the caller receives one       *)
(* result per region.  The results channel is taken as an unordered pool.  *)
(***************************************************************************)
SemaphoreCapacity == 5

\* the most candidate regions a caller hands to QuerySpotInstanceAvailability
MaxRegions == 6

\* tencentRegions, the candidates of FindAvailableRegions
TencentRegions ==
    <<"ap-shanghai", "ap-nanjing", "ap-guangzhou", "ap-beijing", "ap-chengdu", "ap-chongqing">>

\* the positions of the candidate list; a region is named by its position
RegionSlots == 1..(IF MaxRegions > Len(TencentRegions) THEN MaxRegions ELSE Len(TencentRegions))

\* the candidates of the call in progress
ProbeRegions == 1..probeN

\* how many candidates a call of op may have
CandidateCounts(op) ==
    IF op = "FindAvailableRegions" THEN {Len(TencentRegions)} ELSE 0..MaxRegions

ProbeOps == {"FindAvailableRegions", "QuerySpotInstanceAvailability"}

\* what a region's query ends in: capacity found, or nothing (it errors, times out, or
\* reports no capacity: the caller is handed the same result for all three)
ProbeOutcomes == {"available", "error"}

\* A variant of the semaphore that never makes a goroutine wait.
SlotFreeAlways(held) == TRUE

\* semaphore <- struct{}{} can proceed
SlotFree(held) == held < SemaphoreCapacity

\* the goroutines that hold a slot of the semaphore
InFlight == {r \in ProbeRegions : probeWorker[r] = "probing"}

NoProbeRet == [regions |-> {}, err |-> Nil, returned |-> FALSE]

InitProbeIdle ==
    /\ probeOp = "FindAvailableRegions"
    /\ probeCreds = TRUE
    /\ probeN = Len(TencentRegions)
    /\ probePc = "idle"
    /\ probeWorker = [r \in RegionSlots |-> "unspawned"]
    /\ probeOutcome = [r \in RegionSlots |-> "none"]
    /\ probeReceived = 0
    /\ probeCancelled = FALSE
    /\ probeRet = NoProbeRet

InitProbe ==
    /\ probeOp \in ProbeOps
    /\ probeCreds \in BOOLEAN
    /\ probeN \in CandidateCounts(probeOp)
    /\ probePc = "idle"
    /\ probeWorker = [r \in RegionSlots |-> "unspawned"]
    /\ probeOutcome = [r \in RegionSlots |-> "none"]
    /\ probeReceived = 0
    /\ probeCancelled = FALSE
    /\ probeRet = NoProbeRet

\* the regions whose result the caller has received as available
AvailableReceived(worker, outcome) ==
    {r \in RegionSlots : worker[r] = "received" /\ outcome[r] = "available"}

\* the tail of the function, once a result per region has been received
ProbeResult(op, candidates, available) ==
    IF op = "FindAvailableRegions" /\ available = {}
    THEN [regions |-> candidates, err |-> Nil, returned |-> TRUE]
    ELSE [regions |-> available, err |-> Nil, returned |-> TRUE]

\* entry: the credential check, then one goroutine per region
ProbeStart ==
    /\ probePc = "idle"
    /\ IF ~probeCreds
       THEN /\ probeRet' = [regions |-> {}, err |-> "no tencent credentials", returned |-> TRUE]
            /\ probePc' = "returned"
            /\ UNCHANGED probeWorker
       ELSE /\ probeWorker' = [r \in RegionSlots |-> IF r \in ProbeRegions THEN "spawned" ELSE "unspawned"]
            /\ IF probeN = 0
               THEN /\ probeRet' = ProbeResult(probeOp, {}, {})
                    /\ probePc' = "returned"
               ELSE /\ probePc' = "collecting"
                    /\ UNCHANGED probeRet
    /\ UNCHANGED <<probeOp, probeCreds, probeN, probeOutcome, probeReceived, probeCancelled>>
    /\ UNCHANGED notProbeVars

\* a goroutine takes a slot and starts its query
ProbeAcquire ==
    /\ \E r \in ProbeRegions :
         /\ probeWorker[r] = "spawned"
         /\ SlotFree(Cardinality(InFlight))
         /\ probeWorker' = [probeWorker EXCEPT ![r] = "probing"]
    /\ UNCHANGED <<probeOp, probeCreds, probeN, probePc, probeOutcome, probeReceived, probeCancelled, probeRet>>
    /\ UNCHANGED notProbeVars

\* a query ends (under a cancelled ctx: with an error), the goroutine sends its result
\* and gives the slot back
ProbeFinish ==
    /\ \E r \in ProbeRegions, o \in ProbeOutcomes :
         /\ probeWorker[r] = "probing"
         /\ probeCancelled => o = "error"
         /\ probeOutcome' = [probeOutcome EXCEPT ![r] = o]
         /\ probeWorker' = [probeWorker EXCEPT ![r] = "sent"]
    /\ UNCHANGED <<probeOp, probeCreds, probeN, probePc, probeReceived, probeCancelled, probeRet>>
    /\ UNCHANGED notProbeVars

\* A variant of the collect loop that waits for one result more than there are regions.
CollectCountPlusOne(n) == n + 1

\* for i := 0; i < len(regions); i++: how many results the collect loop receives
CollectCount(n) == n

\* one iteration of the collect loop; the last one returns
ProbeCollect ==
    /\ probePc = "collecting"
    /\ \E r \in ProbeRegions :
         /\ probeWorker[r] = "sent"
         /\ probeWorker' = [probeWorker EXCEPT ![r] = "received"]
         /\ probeReceived' = probeReceived + 1
         /\ IF probeReceived + 1 = CollectCount(probeN)
            THEN /\ probeRet' = ProbeResult(probeOp, ProbeRegions,
                                    AvailableReceived([probeWorker EXCEPT ![r] = "received"], probeOutcome))
                 /\ probePc' = "returned"
            ELSE UNCHANGED <<probeRet, probePc>>
    /\ UNCHANGED <<probeOp, probeCreds, probeN, probeOutcome, probeCancelled>>
    /\ UNCHANGED notProbeVars

\* the caller's ctx is cancelled while the fan-out is in progress
ProbeCancel ==
    /\ probePc = "collecting"
    /\ ~probeCancelled
    /\ probeCancelled' = TRUE
    /\ UNCHANGED <<probeOp, probeCreds, probeN, probePc, probeWorker, probeOutcome, probeReceived, probeRet>>
    /\ UNCHANGED notProbeVars

NextProbe ==
    \/ ProbeStart
    \/ ProbeAcquire
    \/ ProbeFinish
    \/ ProbeCollect
    \/ ProbeCancel

(***************************************************************************)
(* Two callers of DeployScenario / DestroyScenario for the same Scenario.  *)
(* Each call runs its engine commands one after the other, every command   *)
(* with cmd.Dir = scenario.Path; a command is in flight between its start  *)
(* and its end.                                                            *)
(***************************************************************************)
Callers == {1, 2}

\* the engine commands of a call, in the order the call runs them
EngineCommands(op) ==
    IF op = "DeployScenario" THEN <<"init", "validate", "plan", "apply">> ELSE <<"destroy">>

IdleCaller == [op |-> "none", step |-> 0, phase |-> "idle", dir |-> ""]

InitCallersIdle == callers = [c \in Callers |-> IdleCaller]

\* a call is entered: GetScenario, then the variables are built; nothing is locked
CallEnter ==
    /\ \E c \in Callers, op \in {"DeployScenario", "DestroyScenario"} :
         /\ callers[c].phase \in {"idle", "returned", "failed"}
         /\ callers' = [callers EXCEPT ![c] = [op |-> op, step |-> 1, phase |-> "ready", dir |-> scenario.Path]]
    /\ UNCHANGED notConVars

\* the call starts its next engine command in the working directory
CommandStart ==
    /\ \E c \in Callers :
         /\ callers[c].phase = "ready"
         /\ callers' = [callers EXCEPT ![c].phase = "running"]
    /\ UNCHANGED notConVars

\* the command ends: on an error the call returns it, otherwise the call goes on to its
\* next command, or returns after its last one
CommandEnd ==
    /\ \E c \in Callers, ok \in BOOLEAN :
         /\ callers[c].phase = "running"
         /\ callers' = [callers EXCEPT ![c] =
                IF ~ok THEN [@ EXCEPT !.phase = "failed"]
                ELSE IF callers[c].step = Len(EngineCommands(callers[c].op))
                     THEN [@ EXCEPT !.phase = "returned"]
                     ELSE [@ EXCEPT !.step = @ + 1, !.phase = "ready"]]
    /\ UNCHANGED notConVars

NextCallers ==
    \/ CallEnter
    \/ CommandStart
    \/ CommandEnd

(***************************************************************************)
(* Price repository: GetPrice with its cache of fetched quotes.  Time is   *)
(* counted in ticks; a fetched quote is named by its key and the time it   *)
(* was fetched at.                                                         *)
(***************************************************************************)
MaxTime == 4              \* the clock stops here
TicksPerHour == 2

\* cacheExpiry of NewPriceRepository: 1 * time.Hour
CacheExpiry == 1 * TicksPerHour

\* the keys "<provider>/<template>" GetPrice is called with
CacheKeys == {<<"aliyun", "ecs">>, <<"tencent", "tencent-proxy">>}

\* getDefaultPrices: the (provider, template) pairs of the static table
StaticPrices ==
    {<<"aliyun", "ecs">>, <<"aliyun", "ecs1c2g">>, <<"aliyun", "aliyun-proxy">>, <<"tencent", "ecs">>,
     <<"aws", "ec2">>, <<"aws", "ec2-1G">>, <<"vultr", "hk-vps">>}

NoQuote == [src |-> "none", key |-> <<>>, at |-> 0]
FetchedQuote(key, at) == [src |-> "fetch", key |-> key, at |-> at]
StaticQuote(key) == [src |-> "static", key |-> key, at |-> 0]

NoEntry == [present |-> FALSE, price |-> NoQuote, expires |-> 0]

\* &cachedPrice{price, expires: time.Now().Add(r.cacheExpiry)}
CachedPrice(price, now) == [present |-> TRUE, price |-> price, expires |-> now + CacheExpiry]

\* A variant that still serves the entry at the instant it expires.
CacheValidAtExpiry(entry, now) == entry.present /\ now <= entry.expires

\* ok && time.Now().Before(cached.expires)
CacheValid(entry, now) == entry.present /\ now < entry.expires

NoGet == [key |-> <<>>, at |-> 0, found |-> NoEntry, queried |-> FALSE, fetchOk |-> FALSE,
          source |-> "none", price |-> NoQuote]

InitCacheIdle ==
    /\ clock = 0
    /\ priceFetcher = FALSE
    /\ cache = [k \in CacheKeys |-> NoEntry]
    /\ lastGet = NoGet

\* time passes
Tick ==
    /\ clock < MaxTime
    /\ clock' = clock + 1
    /\ UNCHANGED <<priceFetcher, cache, lastGet>>
    /\ UNCHANGED notCacheVars

SetPriceFetcher ==
    /\ ~priceFetcher
    /\ priceFetcher' = TRUE
    /\ UNCHANGED <<clock, cache, lastGet>>
    /\ UNCHANGED notCacheVars

\* the lookup in the static table at the end of GetPrice
StaticLookup(key) ==
    IF key \in StaticPrices
    THEN [source |-> "static", price |-> StaticQuote(key)]
    ELSE [source |-> "notFound", price |-> NoQuote]

\* GetPrice; a fetch may take a tick
GetPrice ==
    /\ \E key \in CacheKeys :
         IF CacheValid(cache[key], clock)
         THEN /\ lastGet' = [key |-> key, at |-> clock, found |-> cache[key], queried |-> FALSE,
                             fetchOk |-> FALSE, source |-> "cache", price |-> cache[key].price]
              /\ UNCHANGED <<clock, cache>>
         ELSE IF priceFetcher
         THEN \E fetchOk \in BOOLEAN, took \in 0..1 :
                /\ clock + took <= MaxTime
                /\ clock' = clock + took
                /\ IF fetchOk
                   THEN /\ cache' = [cache EXCEPT ![key] = CachedPrice(FetchedQuote(key, clock + took), clock + took)]
                        /\ lastGet' = [key |-> key, at |-> clock, found |-> cache[key], queried |-> TRUE,
                                       fetchOk |-> TRUE, source |-> "fetch",
                                       price |-> FetchedQuote(key, clock + took)]
                   ELSE /\ UNCHANGED cache
                        /\ lastGet' = [key |-> key, at |-> clock, found |-> cache[key], queried |-> TRUE,
                                       fetchOk |-> FALSE, source |-> StaticLookup(key).source,
                                       price |-> StaticLookup(key).price]
         ELSE /\ lastGet' = [key |-> key, at |-> clock, found |-> cache[key], queried |-> FALSE,
                             fetchOk |-> FALSE, source |-> StaticLookup(key).source,
                             price |-> StaticLookup(key).price]
              /\ UNCHANGED <<clock, cache>>
    /\ UNCHANGED priceFetcher
    /\ UNCHANGED notCacheVars

\* GetPricesByType: a successful fetch by type caches every quote it returned
GetPricesByType ==
    /\ priceFetcher
    /\ \E keys \in (SUBSET CacheKeys) \ {{}} :
         cache' = [k \in CacheKeys |->
                     IF k \in keys THEN CachedPrice(FetchedQuote(k, clock), clock) ELSE cache[k]]
    /\ UNCHANGED <<clock, priceFetcher, lastGet>>
    /\ UNCHANGED notCacheVars

NextCache ==
    \/ Tick
    \/ SetPriceFetcher
    \/ GetPrice
    \/ GetPricesByType

(***************************************************************************)
(* Deletion: DeleteScenario and DeleteProject of the project service, on a *)
(* project that holds the Scenario the model follows ("s1") and a second   *)
(* one ("s2").                                                             *)
(***************************************************************************)
ScenarioIds == {"s1", "s2"}

Statuses == {"pending", "deployed", "destroyed"}

\* the persisted status of a Scenario of the project
StatusOf(id) == IF id = "s1" THEN scenario.Status ELSE otherStatus

NoDelRet == [op |-> "none", err |-> NoErr]

InitDeleteIdle ==
    /\ exists = [project |-> TRUE, s1 |-> TRUE, s2 |-> TRUE]
    /\ otherStatus = "pending"
    /\ delRet = NoDelRet

\* DeleteScenario: GetScenario, the status check, then the removal of the directory
DeleteScenario ==
    /\ \E id \in ScenarioIds, readOk \in BOOLEAN, removeOk \in BOOLEAN :
         LET err == IF ~exists.project THEN Err("projectNotFound", <<>>)
                    ELSE IF ~exists[id] THEN Err("scenarioNotFound", <<id>>)
                    ELSE IF ~readOk THEN Err("readMetadataFailed", <<id>>)
                    ELSE IF StatusOf(id) = "deployed" THEN Err("scenarioDeployed", <<id>>)
                    ELSE IF ~removeOk THEN Err("removeFailed", <<id>>)
                    ELSE NoErr
         IN  /\ delRet' = [op |-> "DeleteScenario", err |-> err]
             /\ exists' = IF err = NoErr THEN [exists EXCEPT ![id] = FALSE] ELSE exists
    /\ UNCHANGED <<otherStatus, scenario, pc, call, regionList, regionIndex, remainingNodes,
                   deployedRegions, attempts, ret, subScenarios, successCount>>
    /\ UNCHANGED notDelVars

\* the check of DeleteProject: ListScenarios succeeded and returned a deployed Scenario;
\* ListScenarios leaves out the Scenarios whose metadata it cannot read
BlocksDelete(listOk, readable) ==
    listOk /\ \E id \in ScenarioIds : exists[id] /\ id \in readable /\ StatusOf(id) = "deployed"

\* DeleteProject: GetProject, the check of the Scenarios, then the removal of the directory
DeleteProject ==
    /\ \E listOk \in BOOLEAN, readable \in SUBSET ScenarioIds, removeOk \in BOOLEAN :
         LET err == IF ~exists.project THEN Err("projectNotFound", <<>>)
                    ELSE IF BlocksDelete(listOk, readable) THEN Err("projectHasDeployed", <<>>)
                    ELSE IF ~removeOk THEN Err("removeFailed", <<>>)
                    ELSE NoErr
         IN  /\ delRet' = [op |-> "DeleteProject", err |-> err]
             /\ exists' = IF err = NoErr
                          THEN [project |-> FALSE, s1 |-> FALSE, s2 |-> FALSE]
                          ELSE exists
    /\ UNCHANGED <<otherStatus, scenario, pc, call, regionList, regionIndex, remainingNodes,
                   deployedRegions, attempts, ret, subScenarios, successCount>>
    /\ UNCHANGED notDelVars

\* DestroyScenario on the first Scenario, while it exists
DestroyExisting ==
    /\ exists.project /\ exists.s1
    /\ DestroyScenario

NextDelete ==
    \/ DeleteScenario
    \/ DeleteProject
    \/ DestroyExisting

\* Spec: the Scenario of any template is deployed and destroyed; the optimizer is idle.
Init == InitScenario /\ InitOptimizer /\ InitEngineIdle /\ InitProbeIdle /\ InitCallersIdle /\ InitCacheIdle /\ InitDeleteIdle

Next ==
    \/ DeployScenario
    \/ AllRegionsAttempt
    \/ RetryAttempt
    \/ FragAttempt
    \/ DestroyScenario

Spec == Init /\ [][Next]_vars

\* SpecPrice: the optimizer is exercised; no deploy or destroy is issued.
InitPrice ==
    /\ InitOptimizer /\ InitScenario /\ scenario.Template = AliyunEcs
    /\ InitEngineIdle /\ InitProbeIdle /\ InitCallersIdle /\ InitCacheIdle /\ InitDeleteIdle

SpecPrice == InitPrice /\ [][NextPrice]_vars

\* SpecEngine: for any credential store and template, the commands of a deploy and a destroy.
InitEng ==
    /\ InitOptimizer /\ InitScenario /\ scenario.Template = AliyunEcs
    /\ InitEngine /\ InitProbeIdle /\ InitCallersIdle /\ InitCacheIdle /\ InitDeleteIdle

SpecEngine == InitEng /\ [][NextEngine]_vars

\* SpecProbe: one call of the capacity probe, with or without credentials, possibly cancelled.
InitProbing ==
    /\ InitOptimizer /\ InitScenario /\ scenario.Template = AliyunEcs
    /\ InitEngineIdle /\ InitProbe /\ InitCallersIdle /\ InitCacheIdle /\ InitDeleteIdle

SpecProbe == InitProbing /\ [][NextProbe]_vars

\* SpecProbeFair: one call whose ctx is not cancelled, with every goroutine scheduled again
\* and again and every provider query returning.
NextFanOut ==
    \/ ProbeStart
    \/ ProbeAcquire
    \/ ProbeFinish
    \/ ProbeCollect

SpecProbeFair ==
    /\ InitProbing
    /\ [][NextFanOut]_vars
    /\ WF_vars(ProbeStart)
    /\ WF_vars(ProbeAcquire)
    /\ WF_vars(ProbeFinish)
    /\ WF_vars(ProbeCollect)

\* SpecCallers: two callers deploy and destroy the same Scenario at the same time.
InitCallers ==
    /\ InitOptimizer /\ InitScenario /\ scenario.Template = AliyunEcs
    /\ InitEngineIdle /\ InitProbeIdle /\ InitCallersIdle /\ InitCacheIdle /\ InitDeleteIdle

SpecCallers == InitCallers /\ [][NextCallers]_vars

\* SpecCache: GetPrice is called again and again while time passes.
InitCache ==
    /\ InitOptimizer /\ InitScenario /\ scenario.Template = AliyunEcs
    /\ InitEngineIdle /\ InitProbeIdle /\ InitCallersIdle /\ InitCacheIdle /\ InitDeleteIdle

SpecCache == InitCache /\ [][NextCache]_vars

\* SpecDelete: a project with two Scenarios of any status; delete and destroy calls.
InitDelete ==
    /\ InitOptimizer /\ InitEngineIdle /\ InitProbeIdle /\ InitCallersIdle /\ InitCacheIdle
    /\ scenario \in [Template : {AliyunEcs}, Status : Statuses, Path : {ScenarioPath}]
    /\ pc = "idle"
    /\ call = NoCall
    /\ regionList = <<>>
    /\ regionIndex = 0
    /\ remainingNodes = 0
    /\ deployedRegions = <<>>
    /\ attempts = <<>>
    /\ ret = NoRet
    /\ subScenarios = NoSubScenarios
    /\ successCount = 0
    /\ exists = [project |-> TRUE, s1 |-> TRUE, s2 |-> TRUE]
    /\ otherStatus \in Statuses
    /\ delRet = NoDelRet

SpecDelete == InitDelete /\ [][NextDelete]_vars

(***************************************************************************)
(* Properties of the price optimizer (checked under SpecPrice).            *)
(***************************************************************************)
Returned(k) == k < optCall \/ (k = optCall /\ optPc = "returned")

\* The quotes the provider returns successfully for the candidate pairs of the call.
SuccessfulQuotes ==
    IF optOp = "none" THEN {}
    ELSE {GetPriceForInstance(p[1], p[2]).price :
            p \in {q \in CandidatePairs(optOp, optArgs) : ~GetPriceForInstance(q[1], q[2]).err}}

\* C1: whenever at least one candidate query succeeds, the call returns, without error,
\* a quote of the successful set whose pricePerHour no other successful quote undercuts.
C1_ReturnsMinimum ==
    \A k \in 1..MaxCalls :
        (Returned(k) /\ SuccessfulQuotes # {}) =>
            /\ optOut[k].err = Nil
            /\ \E q \in SuccessfulQuotes : optOut[k].config = OptimalFrom(q)
            /\ \A q \in SuccessfulQuotes : ~(q.PricePerHour < optOut[k].config.Price)

C1_Witness ==
    /\ optOp = "FindCheapestInstance"
    /\ optPc = "returned"
    /\ \E q1, q2 \in SuccessfulQuotes : q1.PricePerHour < q2.PricePerHour
    /\ optOut[optCall].err = Nil
    /\ \A q \in SuccessfulQuotes : optOut[optCall].config.Price <= q.PricePerHour

\* C2 as stated: an empty candidate list, or a call whose every query fails, returns an error.
C2_EmptyOrAllFailedIsError ==
    \A k \in 1..MaxCalls :
        (Returned(k) /\ (optArgs.regions = <<>> \/ optArgs.instanceTypes = <<>>
                         \/ SuccessfulQuotes = {})) =>
            optOut[k].err # Nil

\* C2 (amended): when every query over the effective candidate lists (the caller's, or the
\* defaults substituted for an empty list) fails, the call returns an error and no quote;
\* and no call returns a nil quote together with a nil error.
C2_NoQuotesIsError ==
    \A k \in 1..MaxCalls :
        Returned(k) =>
            /\ SuccessfulQuotes = {} => (optOut[k].err # Nil /\ optOut[k].config = NilConfig)
            /\ ~(optOut[k].err = Nil /\ optOut[k].config = NilConfig)

C2_Witness ==
    /\ optPc = "returned"
    /\ optOp = "FindCheapestInstance"
    /\ CandidatePairs(optOp, optArgs) \cap Pairs # {}
    /\ SuccessfulQuotes = {}
    /\ optOut[optCall].err # Nil

\* C3: two calls with the same arguments and the same provider answers return the same
\* OptimalConfig.
C3_RepeatedCallAgrees ==
    (optCall = MaxCalls /\ optPc = "returned") => optOut[1] = optOut[MaxCalls]


(***************************************************************************)
(* Properties of DeployScenario / DestroyScenario (checked under Spec).    *)
(***************************************************************************)
DeployReturned == pc = "returned" /\ ret.op = "deploy"

PersistFailed == ret.err.kind = "updateScenarioFailed"

\* the current deploy call went through the single-region loop (or made one attempt only)
SingleRegionCall ==
    /\ call.op = "deploy"
    /\ attempts # <<>>
    /\ \A i \in 1..Len(attempts) : attempts[i].via # "frag"

\* the current deploy call went through deployAcrossMultipleRegions
FragCall ==
    /\ call.op = "deploy"
    /\ attempts # <<>>
    /\ attempts[Len(attempts)].via = "frag"

\* the ordered candidates of a failover: the region of the first attempt, then the
\* domestic regions other than the current one, in their listed order
FailoverCandidates ==
    LET current == IF call.regionVar = "" THEN "ap-beijing" ELSE call.regionVar
    IN  <<call.regionVar>> \o SelectSeq(GetDomesticRegions, LAMBDA r : r # current)

\* C4: in single-region failover the attempts follow the candidate list in order, one
\* attempt per candidate; a successful attempt is the last one of the call, and the call
\* then returns success with the Scenario marked deployed (its metadata file being writable).
\* In particular quota, quota, success over [R1, R2, R3] attempts exactly R1, R2, R3.
C4_FailoverInOrderStopsAtSuccess ==
    (SingleRegionCall /\ IsTencent(scenario.Template)) =>
        /\ Len(attempts) <= Len(FailoverCandidates)
        /\ \A i \in 1..Len(attempts) :
             /\ attempts[i].region = FailoverCandidates[i]
             /\ attempts[i].class = "ok" =>
                  /\ i = Len(attempts)
                  /\ DeployReturned
                  /\ ~PersistFailed => (ret.err = NoErr /\ scenario.Status = "deployed")

C4_Witness ==
    /\ DeployReturned
    /\ SingleRegionCall
    /\ call.statusBefore = "pending"
    /\ call.regionVar = "ap-shanghai"
    /\ Len(attempts) = 3
    /\ attempts[1].class = "quota" /\ attempts[2].class = "quota" /\ attempts[3].class = "ok"
    /\ attempts[2].region = "ap-nanjing" /\ attempts[3].region = "ap-guangzhou"
    /\ ret.err = NoErr
    /\ scenario.Status = "deployed"


\* the regions of the candidate list that fragmentation has asked for a node so far
FragAsked == {attempts[i].region : i \in {k \in 1..Len(attempts) : attempts[k].via = "frag"}}

\* the regions that accepted a node when fragmentation asked
FragAccepted ==
    {attempts[i].region :
        i \in {k \in 1..Len(attempts) : attempts[k].via = "frag" /\ attempts[k].class = "ok"}}

\* the candidate regions that can host a node as far as the call has found out: those
\* that accepted one, and those it never asked
FragCanHost == FragAccepted \cup (Range(regionList) \ FragAsked)

PlacedNodes == Len(deployedRegions)

\* C5: a fragmentation call for N nodes over candidates of which at least N can host one
\* node returns with exactly N nodes placed, in N pairwise-distinct regions, and with
\* the Scenario marked deployed (its metadata file being writable).
C5_FragmentationCompletes ==
    (DeployReturned /\ FragCall /\ Cardinality(FragCanHost) >= call.total) =>
        /\ PlacedNodes = call.total
        /\ \A i \in 1..PlacedNodes : deployedRegions[i].nodes = 1
        /\ \A i, j \in 1..PlacedNodes : i # j => deployedRegions[i].region # deployedRegions[j].region
        /\ ~PersistFailed => (ret.err = NoErr /\ scenario.Status = "deployed")

C5_Witness ==
    /\ DeployReturned
    /\ FragCall
    /\ call.statusBefore = "pending"
    /\ call.total = 3
    /\ Len(attempts) = 5
    /\ PlacedNodes = 3
    /\ Cardinality({deployedRegions[i].region : i \in 1..PlacedNodes}) = 3
    /\ ret.err = NoErr
    /\ scenario.Status = "deployed"

\* C6: a fragmentation call that runs out of candidates with nodes still to place
\* returns an error that carries the number of nodes left and the regions that hold a
\* node, and the Scenario's persisted status is not deployed.
C6_PartialFragmentationNotDeployed ==
    (DeployReturned /\ FragCall /\ remainingNodes > 0) =>
        /\ ret.err = Err("fragmentationIncomplete", <<remainingNodes, deployedRegions>>)
        /\ remainingNodes = call.total - PlacedNodes
        /\ scenario.Status # "deployed"


\* C7: the persisted status becomes deployed only from pending, and becomes destroyed
\* only from deployed.
C7_StatusNeverSkips ==
    [][/\ (scenario'.Status = "deployed" /\ scenario.Status # "deployed")
            => scenario.Status = "pending"
       /\ (scenario'.Status = "destroyed" /\ scenario.Status # "destroyed")
            => scenario.Status = "deployed"]_vars

\* C8: once the persisted status is destroyed, no call changes it.
C8_DestroyedIsTerminal ==
    [][scenario.Status = "destroyed" => scenario'.Status = "destroyed"]_vars

\* the current deploy call has failed: its last attempt failed, or fragmentation ran out
\* of candidates with nodes still to place
DeployFailed ==
    /\ DeployReturned
    /\ \/ attempts # <<>> /\ attempts[Len(attempts)].class # "ok"
       \/ FragCall /\ remainingNodes > 0
       \/ attempts = <<>> /\ (regionList = <<>> \/ successCount = 0)

C10_OnlyQuotaAdvances ==
    call.op = "deploy" =>
        \A i \in 1..Len(attempts) :
            /\ attempts[i].class = "other" =>
                 (i = Len(attempts) /\ DeployReturned /\ ret.err # NoErr)
            /\ (attempts[i].class = "quota" /\ i = Len(attempts) /\ DeployReturned) => i > 1


\* C11: the attempts of different fragments of a fragmentation call are made in pairwise
\* distinct working directories.
C11_FragmentsUseDistinctWorkdirs ==
    call.op = "deploy" =>
        \A i, j \in 1..Len(attempts) :
            (i # j /\ attempts[i].via = "frag" /\ attempts[j].via = "frag")
                => attempts[i].dir # attempts[j].dir


\* C12: whenever a deploy call returns success, the persisted status of the Scenario it
\* was called for is deployed.
C12_SuccessMeansDeployed ==
    (DeployReturned /\ ret.err = NoErr) => scenario.Status = "deployed"


\* the current deploy call names a region other than the one its zone-node template encodes
ConflictingRegionCall ==
    /\ call.op = "deploy"
    /\ DeployReturned
    /\ HasZoneNodeRegion(scenario.Template)
    /\ call.region = "sh"
    /\ scenario.Template # AliyunZoneSh

Fragmenting ==
    /\ call.op = "deploy"
    /\ (pc = "frag" \/ \E i \in 1..Len(attempts) : attempts[i].via = "frag")

\* C23: a deploy call fragments only after an attempt in a single region, for more than
\* one node, has failed with a quota error; in particular a deploy of several nodes whose
\* first region has the quota makes one attempt and does not fragment.
C23_FragmentationOnlyAfterQuotaFailure ==
    Fragmenting =>
        /\ attempts # <<>>
        /\ attempts[1].via = "first"
        /\ attempts[1].class = "quota"
        /\ call.total > 1

\* the current deploy call is for a Scenario with no region in its template, with no
\* region argument
AllRegionsCall ==
    /\ call.op = "deploy"
    /\ IsRegionlessAliyunProxy(scenario.Template)
    /\ call.region = ""

\* C24: such a call tries the regions in their listed order and stops at the first region
\* whose provisioning succeeds: after a success it attempts no further region and returns.
C24_StopsAtFirstSuccess ==
    AllRegionsCall =>
        /\ regionList = RegionOrder
        /\ successCount >= 1 =>
              /\ successCount = 1
              /\ DeployReturned
              /\ ret.err = NoErr
              /\ subScenarios[regionList[regionIndex - 1]] = "deployed"

\* C25: no call changes the Template of the Scenario, and every provisioning attempt made
\* in the working directory of the Scenario is made for the Template the Scenario had
\* when the call was issued.
C25_WorkdirKeepsItsTemplate ==
    [][/\ scenario'.Template = scenario.Template
       /\ \A i \in 1..Len(attempts') :
            attempts'[i].dir = scenario.Path => attempts'[i].template = scenario.Template]_vars

\* the regions an error names as having failed: "Terraform apply 失败 (区域: %s)" names
\* its region; the other errors wrap the engine's error of one attempt and name none
FailuresNamed(err) ==
    IF err.kind = "applyFailed" /\ err.args # <<>> THEN {err.args[1]} ELSE {}

\* C26: the error of a deploy call that failed after trying several candidate regions
\* names every region that was tried and failed.
C26_ErrorEnumeratesCandidates ==
    (DeployReturned /\ ret.err # NoErr /\ ~PersistFailed /\ Len(attempts) > 1) =>
        \A i \in 1..Len(attempts) :
            attempts[i].class # "ok" => attempts[i].region \in FailuresNamed(ret.err)

\* the attempts deployAcrossMultipleRegions has made in the current call
FragAttempts == {i \in 1..Len(attempts) : attempts[i].via = "frag"}

\* C28: deployAcrossMultipleRegions attempts each region of its list at most once and
\* places one node per successful attempt, so it never places more nodes than it has
\* candidate regions; a call for more nodes than candidate regions does not change the
\* persisted status and returns an error, even if every attempt succeeds.
C28_OneNodePerRegion ==
    Fragmenting =>
        /\ \A i, j \in FragAttempts : i # j => attempts[i].region # attempts[j].region
        /\ \A i \in 1..PlacedNodes : deployedRegions[i].nodes = 1
        /\ PlacedNodes = Cardinality({i \in FragAttempts : attempts[i].class = "ok"})
        /\ PlacedNodes <= Len(regionList)
        /\ call.total > Len(regionList) =>
              /\ scenario.Status = call.statusBefore
              /\ DeployReturned => ret.err.kind = "fragmentationIncomplete"

C28_Witness ==
    /\ DeployReturned
    /\ Fragmenting
    /\ call.statusBefore = "pending"
    /\ call.total > Len(regionList)
    /\ PlacedNodes = Len(regionList)
    /\ \A i \in FragAttempts : attempts[i].class = "ok"
    /\ ret.err.kind = "fragmentationIncomplete"
    /\ scenario.Status = "pending"

DestroyReturned == pc = "returned" /\ ret.op = "destroy"

\* C21: DestroyScenario issues exactly one destroy call, in the working directory of the
\* Scenario, and tries no other region; the persisted status becomes destroyed only if
\* that call succeeded; if it failed the call returns an error and the persisted status
\* is the one before the call.
C21_DestroyOnceNoFailover ==
    DestroyReturned =>
        /\ Len(attempts) = 1
        /\ attempts[1].via = "destroy"
        /\ attempts[1].dir = scenario.Path
        /\ attempts[1].region = ""
        /\ (scenario.Status = "destroyed" /\ call.statusBefore # "destroyed")
              => attempts[1].class = "ok"
        /\ attempts[1].class # "ok" =>
              (ret.err # NoErr /\ scenario.Status = call.statusBefore)

C21_Witness ==
    /\ DestroyReturned
    /\ call.statusBefore = "deployed"
    /\ attempts[1].class = "other"
    /\ ret.err.kind = "destroyFailed"
    /\ scenario.Status = "deployed"


(***************************************************************************)
(* Properties of the credential resolution (checked under SpecEngine).     *)
(***************************************************************************)
\* the <<name, value>> pairs of a set whose value is a secret of the credential store
SecretFields(pairs) == {kv \in pairs : kv[2] \in SecretValues}

\* C13: no plan, apply or destroy command carries a secret of the credential store among
\* its -var arguments.
C13_NoSecretOnCommandLine ==
    \A i \in 1..Len(invocations) :
        invocations[i].cmd \in {"plan", "apply", "destroy"} => SecretFields(invocations[i].args) = {}

\* C19: for one template and one credential store, the destroy command is given the same
\* secret fields, as variables and as environment, as the apply command of the deploy.
C19_DestroyInjectsWhatDeployDoes ==
    \A i, j \in 1..Len(invocations) :
        (invocations[i].cmd = "apply" /\ invocations[j].cmd = "destroy") =>
            /\ SecretFields(invocations[i].vars) = SecretFields(invocations[j].vars)
            /\ SecretFields(invocations[i].env) = SecretFields(invocations[j].env)

\* C20: for a template that matches no provider prefix, no command is given a secret of
\* the credential store, neither as a variable nor in its environment.
C20_UnknownTemplateGetsNoSecret ==
    ~(\E p \in CredProviders : HasProviderPrefix(engCall.template, p)) =>
        \A i \in 1..Len(invocations) :
            /\ SecretFields(invocations[i].vars) = {}
            /\ SecretFields(invocations[i].env) = {}


(***************************************************************************)
(* Properties of the capacity probe (checked under SpecProbe).             *)
(***************************************************************************)
\* the candidates whose query found capacity
FoundAvailable == {r \in ProbeRegions : probeOutcome[r] = "available"}

\* C15: the capacity probe never returns an error: a region whose query errors or times
\* out is not among the regions it reports, and when nothing could be learnt (no
\* credentials, or no query found capacity) it returns the empty set and a nil error.
C15_ProbeNeverErrors ==
    probeRet.returned =>
        /\ probeRet.err = Nil
        /\ probeRet.regions \subseteq FoundAvailable
        /\ (~probeCreds \/ FoundAvailable = {}) => probeRet.regions = {}

\* C16: at every moment at most 5 region probes are in flight, that is hold a slot of the
\* semaphore and run the provider query, whatever the number of candidates and the
\* interleaving of the goroutines.
C16_AtMostFiveInFlight == Cardinality(InFlight) <= 5

C16_Witness ==
    /\ Cardinality(InFlight) = 5
    /\ \E r \in ProbeRegions : probeWorker[r] = "spawned"

\* C17: once ctx is cancelled while the fan-out is in progress, no goroutine starts a
\* query any more, and the call does not wait for the queries in flight: its collect
\* loop can go on without a goroutine having to deliver its result first.
C17_CancellationStopsFanOut ==
    /\ [][probeCancelled =>
             \A r \in RegionSlots : probeWorker'[r] = "probing" => probeWorker[r] = "probing"]_vars
    /\ []((probeCancelled /\ probePc = "collecting") => ENABLED ProbeCollect)


RunningIn(dir) == {c \in Callers : callers[c].phase = "running" /\ callers[c].dir = dir}

\* C18: of two DeployScenario / DestroyScenario calls issued concurrently for the same
\* Scenario, at most one has an engine command in flight in the working directory of the
\* Scenario at any time.
C18_OneEngineCommandPerScenario == Cardinality(RunningIn(scenario.Path)) <= 1


(***************************************************************************)
(* Properties of the price repository (checked under SpecCache).           *)
(***************************************************************************)
\* the last GetPrice call found an entry for its key that was stale
FoundStale == lastGet.found.present /\ lastGet.at >= lastGet.found.expires

\* C22: GetPrice returns the cached quote of its key, without asking the fetcher, exactly
\* while the current time is before the expiry of the entry, which is one hour after the
\* insertion; a stale entry is never returned: the fetcher is asked again, and if the fetch
\* fails the answer comes from the static table.
C22_CacheServedUntilExpiry ==
    /\ \A k \in CacheKeys :
         cache[k].present => (cache[k].price.src = "fetch"
                              /\ cache[k].expires = cache[k].price.at + TicksPerHour)
    /\ lastGet.source # "none" =>
         /\ lastGet.source = "cache" <=> (lastGet.found.present /\ lastGet.at < lastGet.found.expires)
         /\ lastGet.source = "cache" => (~lastGet.queried /\ lastGet.price = lastGet.found.price)
         /\ FoundStale =>
              /\ lastGet.queried
              /\ lastGet.price # lastGet.found.price
              /\ ~lastGet.fetchOk => lastGet.source \in {"static", "notFound"}

C22_Witness ==
    /\ FoundStale
    /\ lastGet.at = lastGet.found.expires
    /\ ~lastGet.fetchOk
    /\ lastGet.source = "static"
    /\ cache[lastGet.key] = lastGet.found


(***************************************************************************)
(* Properties of deletion (checked under SpecDelete).                      *)
(***************************************************************************)
\* C30: no call deletes a Scenario whose persisted status is deployed, nor the project
\* that holds it: DeleteScenario and DeleteProject then return an error and leave the
\* Scenario and the project in place.
C30_DeployedIsNotDeleted ==
    [][\A id \in ScenarioIds :
          (exists.project /\ exists[id] /\ StatusOf(id) = "deployed") =>
              exists'.project /\ exists'[id]]_vars

====
